---- MODULE Spec2Model ----
(***************************************************************************)
(* Model of api/[...all].ts (the serverless adapter, lines 1-40) and of    *)
(* the backend entry module it loads (lines 41-197): the Express           *)
(* application, its database connector, its rate limiter and its runtime   *)
(* mode selection.                                                         *)
(*                                                                         *)
(* JavaScript runs each callback to completion, so one action is one       *)
(* callback: the synchronous code from one suspension point (await, event) *)
(* to the next.                                                            *)
(***************************************************************************)
EXTENDS Integers, Sequences, FiniteSets, TLC

VARIABLES
    env,          \* process.env: NODE_ENV, VERCEL, DATABASE_URL
    proc,         \* the backend process: "init" | "running" | "exited"
    exitCode,     \* "none" | "0" | "1" | "signal"
    prisma,       \* line 58: the module-level handle, Null or Client
    dbConnected,  \* line 59
    ipc,          \* initializeDatabase: where it is suspended
    conn,         \* the PrismaClient's connection: "none" | "idle" | "connected" | "closed"
    ilog,         \* what initializeDatabase has logged
    server,       \* the http.Server of app.listen: "none" | "listening" | "closing" | "closed"
    bindHost,     \* the host app.listen was given
    sigHandler,   \* whether the SIGTERM handler is registered
    sigReceived,  \* whether SIGTERM was delivered
    spc,          \* the SIGTERM handler: where it is suspended
    openConns,    \* connections the listener has open
    reqCtx,       \* the (req.dbConnected, req.prisma) pairs attached to requests so far
    \* one invocation of the adapter's handler (lines 3-40)
    hpc,          \* "idle" | "importing" | "waiting" | "done"
    mod,          \* what import('../backend/dist/index.js') resolved to, or NoModule
    invoked,      \* what the adapter called: "none" | "app" | "handle"
    resStatus,    \* the status the adapter itself wrote with res.status, 0 for none
    resBody,      \* the body the adapter itself wrote with res.json, or NoBody
    listeners,    \* whether lines 29-31 have registered the three listeners
    events,       \* the terminal events the response has emitted, in order
    hPromise,     \* the promise handler returned: "none" | "pending" | "resolved" | "rejected"
    thrown,       \* the exception raised in steps 2-4: "none" | "import" | "app" | "errorEvent"
    \* the rate limiter (lines 98-114, 128), within one window
    hits,         \* the limiter's count per identity
    open,         \* per identity and status, the requests it let pass that have not finished
    okSeen,       \* per identity: the requests let pass so far, while all of them are
                  \* successful ones and at most max; Untracked from then on
    unsucc,       \* per identity: the non-exempt requests received that have not (yet)
                  \* ended in a successful response
    last,         \* the limiter's latest decision
    healthTouched \* whether a request to /api/health ever changed a count

serverVars == <<env, proc, exitCode, prisma, dbConnected, ipc, conn, ilog, server,
                bindHost, sigHandler, sigReceived, spc, openConns, reqCtx>>

adapterVars == <<hpc, mod, invoked, resStatus, resBody, listeners, events, hPromise, thrown>>

limiterVars == <<hits, open, okSeen, unsucc, last, healthTouched>>

vars == <<serverVars, adapterVars, limiterVars>>

(***************************************************************************)
(* Values                                                                  *)
(***************************************************************************)
\* An environment variable that is not set reads as undefined.
Absent == "<undefined>"

\* null, and the one PrismaClient the module constructs
Null == "null"
Client == "PrismaClient"

\* JavaScript's ToBoolean on what process.env yields (undefined or a string):
\* undefined and the empty string are falsy, every other string is truthy.
Truthy(v) == v # Absent /\ v # ""

NodeEnvValues == {Absent, "development", "production"}
VercelValues == {Absent, "", "1"}
DatabaseUrlValues == {Absent, "", "postgres://db"}

\* the host of app.listen(PORT, '127.0.0.1', ...)
Loopback == "127.0.0.1"

\* connections the listener may have open at once
MaxConns == 2

(***************************************************************************)
(* initializeDatabase (lines 62-93)                                        *)
(***************************************************************************)
\* The catch block up to its first suspension: lines 79-86. With a handle
\* present it calls prisma.$disconnect() and suspends; without one it falls
\* through to line 91 and the function returns.
InitCatch ==
    /\ dbConnected' = FALSE
    /\ IF prisma # Null
       THEN /\ ipc' = "disconnecting"
            /\ prisma' = prisma
            /\ ilog' = ilog \cup {"failed"}
       ELSE /\ ipc' = "done"
            /\ prisma' = Null
            /\ ilog' = ilog \cup {"failed"}

\* The call at line 174 up to the first suspension: lines 63-66 or 73-77.
\* ctorThrows: new PrismaClient() throws, so line 65 assigns nothing.
InitializeDatabaseStart(ctorThrows) ==
    IF Truthy(env.DATABASE_URL)
    THEN IF ctorThrows
         THEN /\ InitCatch
              /\ conn' = conn
         ELSE /\ prisma' = Client
              /\ conn' = "idle"
              /\ ipc' = "connecting"
              /\ UNCHANGED <<dbConnected, ilog>>
    ELSE /\ dbConnected' = FALSE
         /\ prisma' = Null
         /\ ipc' = "done"
         /\ ilog' = ilog \cup {"noUrl"}
         /\ conn' = conn

\* await prisma.$connect() resolves (line 66); line 69 issues the count.
ConnectResolve ==
    /\ proc = "running"
    /\ ipc = "connecting"
    /\ conn' = "connected"
    /\ ipc' = "counting"
    /\ UNCHANGED <<adapterVars, limiterVars, env, proc, exitCode, prisma, dbConnected, ilog, server, bindHost,
                   sigHandler, sigReceived, spc, openConns, reqCtx>>

\* await prisma.$connect() rejects: the catch block runs.
ConnectReject ==
    /\ proc = "running"
    /\ ipc = "connecting"
    /\ InitCatch
    /\ UNCHANGED <<adapterVars, limiterVars, env, proc, exitCode, conn, server, bindHost,
                   sigHandler, sigReceived, spc, openConns, reqCtx>>

\* await prisma.user.count() resolves: lines 71-72.
CountResolve ==
    /\ proc = "running"
    /\ ipc = "counting"
    /\ dbConnected' = TRUE
    /\ ipc' = "done"
    /\ ilog' = ilog \cup {"connected"}
    /\ UNCHANGED <<adapterVars, limiterVars, env, proc, exitCode, prisma, conn, server, bindHost,
                   sigHandler, sigReceived, spc, openConns, reqCtx>>

\* await prisma.user.count() rejects (the schema is missing): the catch block.
CountReject ==
    /\ proc = "running"
    /\ ipc = "counting"
    /\ InitCatch
    /\ UNCHANGED <<adapterVars, limiterVars, env, proc, exitCode, conn, server, bindHost,
                   sigHandler, sigReceived, spc, openConns, reqCtx>>

\* A plausible slip: the catch block's disconnect is not guarded, so its
\* failure leaves initializeDatabase rejected with the handle still set.
InitDisconnectReject_Unguarded ==
    /\ proc = "running"
    /\ ipc = "disconnecting"
    /\ ipc' = "threw"
    /\ UNCHANGED <<adapterVars, limiterVars, env, proc, exitCode, prisma, dbConnected, conn, ilog, server, bindHost,
                   sigHandler, sigReceived, spc, openConns, reqCtx>>

\* The catch block's await prisma.$disconnect() resolves (line 86); line 91.
InitDisconnectResolve ==
    /\ proc = "running"
    /\ ipc = "disconnecting"
    /\ conn' = "closed"
    /\ prisma' = Null
    /\ ipc' = "done"
    /\ UNCHANGED <<adapterVars, limiterVars, env, proc, exitCode, dbConnected, ilog, server, bindHost,
                   sigHandler, sigReceived, spc, openConns, reqCtx>>

\* It rejects: lines 87-89 log the error, line 91 clears the handle.
InitDisconnectReject ==
    /\ proc = "running"
    /\ ipc = "disconnecting"
    /\ prisma' = Null
    /\ ipc' = "done"
    /\ ilog' = ilog \cup {"disconnectError"}
    /\ UNCHANGED <<adapterVars, limiterVars, env, proc, exitCode, dbConnected, conn, server, bindHost,
                   sigHandler, sigReceived, spc, openConns, reqCtx>>

(***************************************************************************)
(* Module load (lines 54-59, 166-194)                                      *)
(***************************************************************************)
\* A plausible slip: the hosted branch is missing and the connector always runs.
RuntimeModeSelection_AlwaysInit(ctorThrows) ==
    InitializeDatabaseStart(ctorThrows)

\* lines 167-175
RuntimeModeSelection(ctorThrows) ==
    IF Truthy(env.VERCEL)
    THEN /\ dbConnected' = FALSE
         /\ prisma' = Null
         /\ UNCHANGED <<ipc, conn, ilog>>
    ELSE InitializeDatabaseStart(ctorThrows)

\* A plausible slip: the listener is gated by the hosted indicator.
ListenGuard_Hosted == ~Truthy(env.VERCEL)

\* line 178
ListenGuard == env.NODE_ENV # "production"

\* lines 178-194: app.listen and process.on('SIGTERM', ...)
StartLocalServer ==
    IF ListenGuard
    THEN /\ server' = "listening"
         /\ bindHost' = Loopback
         /\ sigHandler' = TRUE
    ELSE UNCHANGED <<server, bindHost, sigHandler>>

\* The module's top-level code, run once when the module is first loaded.
LoadModule ==
    /\ proc = "init"
    /\ \E ctorThrows \in BOOLEAN : RuntimeModeSelection(ctorThrows)
    /\ StartLocalServer
    /\ proc' = "running"
    /\ UNCHANGED <<adapterVars, limiterVars, env, exitCode, sigReceived, spc, openConns, reqCtx>>

(***************************************************************************)
(* Requests: the context-injection middleware (lines 134-138)              *)
(***************************************************************************)
ContextInjection == reqCtx' = reqCtx \cup {<<dbConnected, prisma>>}

\* A request on a connection the listener accepts.
ListenerRequest ==
    /\ proc = "running"
    /\ server = "listening"
    /\ openConns < MaxConns
    /\ openConns' = openConns + 1
    /\ ContextInjection
    /\ UNCHANGED <<adapterVars, limiterVars, env, proc, exitCode, prisma, dbConnected, ipc, conn, ilog, server,
                   bindHost, sigHandler, sigReceived, spc>>

\* A request handed to the exported app (line 197) by whoever imported it.
ExportRequest ==
    /\ proc = "running"
    /\ ContextInjection
    /\ UNCHANGED <<adapterVars, limiterVars, env, proc, exitCode, prisma, dbConnected, ipc, conn, ilog, server,
                   bindHost, sigHandler, sigReceived, spc, openConns>>

\* A connection of the listener ends.
ConnectionEnd ==
    /\ proc = "running"
    /\ openConns > 0
    /\ openConns' = openConns - 1
    /\ UNCHANGED <<adapterVars, limiterVars, env, proc, exitCode, prisma, dbConnected, ipc, conn, ilog, server,
                   bindHost, sigHandler, sigReceived, spc, reqCtx>>

(***************************************************************************)
(* SIGTERM (lines 186-193)                                                 *)
(***************************************************************************)
\* SIGTERM is delivered. With the handler registered, line 188 calls
\* server.close; without one the signal's default disposition ends the process.
Sigterm ==
    /\ proc = "running"
    /\ ~sigReceived
    /\ sigReceived' = TRUE
    /\ IF sigHandler
       THEN /\ server' = "closing"
            /\ spc' = "closing"
            /\ UNCHANGED <<proc, exitCode>>
       ELSE /\ proc' = "exited"
            /\ exitCode' = "signal"
            /\ UNCHANGED <<server, spc>>
    /\ UNCHANGED <<adapterVars, limiterVars, env, prisma, dbConnected, ipc, conn, ilog, bindHost, sigHandler,
                   openConns, reqCtx>>

\* server.close's callback, once every connection has ended: lines 189-191
\* up to the await, or through process.exit(0) when there is no handle.
CloseCallback ==
    /\ proc = "running"
    /\ spc = "closing"
    /\ openConns = 0
    /\ server' = "closed"
    /\ IF prisma # Null
       THEN /\ spc' = "disconnecting"
            /\ UNCHANGED <<proc, exitCode>>
       ELSE /\ spc' = "exited"
            /\ proc' = "exited"
            /\ exitCode' = "0"
    /\ UNCHANGED <<adapterVars, limiterVars, env, prisma, dbConnected, ipc, conn, ilog, bindHost, sigHandler,
                   sigReceived, openConns, reqCtx>>

\* line 190's await prisma.$disconnect() resolves; line 191 exits.
ShutdownDisconnectResolve ==
    /\ proc = "running"
    /\ spc = "disconnecting"
    /\ conn' = "closed"
    /\ spc' = "exited"
    /\ proc' = "exited"
    /\ exitCode' = "0"
    /\ UNCHANGED <<adapterVars, limiterVars, env, prisma, dbConnected, ipc, ilog, server, bindHost, sigHandler,
                   sigReceived, openConns, reqCtx>>

\* It rejects: the async callback's promise rejects with nobody handling it,
\* and line 191 is never reached.
ShutdownDisconnectReject ==
    /\ proc = "running"
    /\ spc = "disconnecting"
    /\ spc' = "rejected"
    /\ UNCHANGED <<adapterVars, limiterVars, env, proc, exitCode, prisma, dbConnected, ipc, conn, ilog, server,
                   bindHost, sigHandler, sigReceived, openConns, reqCtx>>

\* What the runtime does with the unhandled rejection is its own policy: it
\* either only warns (the process stays as it is: no step) or raises it as
\* an uncaught exception, which ends the process with code 1.
UnhandledRejectionExit ==
    /\ proc = "running"
    /\ spc = "rejected"
    /\ proc' = "exited"
    /\ exitCode' = "1"
    /\ UNCHANGED <<adapterVars, limiterVars, env, prisma, dbConnected, ipc, conn, ilog, server, bindHost,
                   sigHandler, sigReceived, spc, openConns, reqCtx>>


(***************************************************************************)
(* The serverless adapter (lines 3-40)                                     *)
(***************************************************************************)
NoModule ==
    [default |-> [kind |-> "undefined", str |-> "", handle |-> "undefined"],
     handle |-> "<not loaded>"]
NoBody == [error |-> "", message |-> ""]

\* lines 16-19 and 35-38
ConfigurationError ==
    [error |-> "Server configuration error",
     message |-> "Express app not properly exported"]
InternalServerError ==
    [error |-> "Internal server error",
     message |-> "Serverless function failed to process request"]

\* terminal events the response may emit after the listeners are registered
MaxEvents == 2

\* What typeof gives for a member named handle.
HandleKinds == {"undefined", "function", "object"}

\* JavaScript values a module may export as default: undefined (no default
\* export), null, strings, functions and objects, the last two with or
\* without a member named handle.
JSValues ==
    {[kind |-> "undefined", str |-> "", handle |-> "undefined"],
     [kind |-> "null", str |-> "", handle |-> "undefined"],
     [kind |-> "string", str |-> "", handle |-> "undefined"],
     [kind |-> "string", str |-> "app", handle |-> "undefined"]}
    \cup {[kind |-> k, str |-> "", handle |-> h] :
              k \in {"function", "object"}, h \in HandleKinds}

\* A module namespace: its default export and what it exports as handle.
Modules == [default : JSValues, handle : HandleKinds]

\* The module namespace object used as a value.
NamespaceValue(m) == [kind |-> "object", str |-> "", handle |-> m.handle]

\* ToBoolean
ToBoolean(v) ==
    CASE v.kind \in {"undefined", "null"} -> FALSE
      [] v.kind = "string" -> v.str # ""
      [] OTHER -> TRUE

\* typeof v
TypeOf(v) == IF v.kind = "null" THEN "object" ELSE v.kind

\* typeof v.handle, for a v that is neither null nor undefined
TypeOfHandle(v) == IF v.kind = "string" THEN "undefined" ELSE v.handle

\* line 11: moduleImport.default || moduleImport
ResolveApp(m) == IF ToBoolean(m.default) THEN m.default ELSE NamespaceValue(m)

\* A plausible slip: any member named handle passes, callable or not.
AppRejected_AnyHandle(app) ==
    \/ ~ToBoolean(app)
    \/ (TypeOf(app) # "function" /\ TypeOfHandle(app) = "undefined")

\* line 14
AppRejected(app) ==
    \/ ~ToBoolean(app)
    \/ (TypeOf(app) # "function" /\ TypeOfHandle(app) # "function")

\* What the application does before app(req, res) or app.handle(req, res)
\* returns: nothing final, a throw, or one terminal event emitted on res.
SyncBehaviours == {"none", "throw", "finish", "close", "error"}

\* lines 5-6 and the call of import() at line 10
HandlerStart ==
    /\ hpc = "idle"
    /\ env' = [env EXCEPT !.NODE_ENV = "production", !.VERCEL = "1"]
    /\ hpc' = "importing"
    /\ hPromise' = "pending"
    /\ UNCHANGED <<mod, invoked, resStatus, resBody, listeners, events, thrown>>
    /\ UNCHANGED <<proc, exitCode, prisma, dbConnected, ipc, conn, ilog, server,
                   bindHost, sigHandler, sigReceived, spc, openConns, reqCtx>>
    /\ UNCHANGED limiterVars

\* While import() is pending the client goes away: the response emits close,
\* and nothing listens yet.
TransportClose ==
    /\ hpc = "importing"
    /\ events = <<>>
    /\ events' = <<"close">>
    /\ UNCHANGED <<hpc, mod, invoked, resStatus, resBody, listeners, hPromise, thrown>>
    /\ UNCHANGED <<serverVars, limiterVars>>

\* import() rejects: the catch block, lines 33-39.
ImportReject ==
    /\ hpc = "importing"
    /\ thrown' = "import"
    /\ resStatus' = 500
    /\ resBody' = InternalServerError
    /\ hPromise' = "resolved"
    /\ hpc' = "done"
    /\ UNCHANGED <<mod, invoked, listeners, events>>
    /\ UNCHANGED <<serverVars, limiterVars>>

\* lines 16-19: the shape is refused.
RespondConfigurationError ==
    /\ resStatus' = 500
    /\ resBody' = ConfigurationError
    /\ hPromise' = "resolved"
    /\ hpc' = "done"
    /\ UNCHANGED <<invoked, listeners, events, thrown>>

\* lines 23-32: the promise's executor. The application runs first; only
\* when it has returned are the listeners registered. What the executor
\* throws rejects the promise, which line 23 returns without awaiting it, so
\* the catch block of line 33 never sees it.
InvokeApp(app, sync) ==
    /\ invoked' = IF TypeOf(app) = "function" THEN "app" ELSE "handle"
    /\ UNCHANGED <<resStatus, resBody>>
    /\ CASE sync = "none" ->
                /\ listeners' = TRUE
                /\ hpc' = "waiting"
                /\ UNCHANGED <<events, hPromise, thrown>>
         [] sync \in {"finish", "close"} ->
                /\ events' = Append(events, sync)
                /\ listeners' = TRUE
                /\ hpc' = "waiting"
                /\ UNCHANGED <<hPromise, thrown>>
         [] sync = "throw" ->
                /\ thrown' = "app"
                /\ hPromise' = "rejected"
                /\ hpc' = "done"
                /\ UNCHANGED <<events, listeners>>
         [] sync = "error" ->
                \* an error event nobody listens to is thrown by emit
                /\ events' = Append(events, "error")
                /\ thrown' = "errorEvent"
                /\ hPromise' = "rejected"
                /\ hpc' = "done"
                /\ UNCHANGED listeners

\* import() resolves: lines 11-32 run to the end of the executor.
ImportResolve ==
    /\ hpc = "importing"
    /\ \E m \in Modules, sync \in SyncBehaviours :
          /\ mod' = m
          /\ IF AppRejected(ResolveApp(m))
             THEN RespondConfigurationError
             ELSE InvokeApp(ResolveApp(m), sync)
    /\ UNCHANGED <<serverVars, limiterVars>>

\* The response emits a terminal event with the listeners registered:
\* finish and close resolve the promise, error rejects it (lines 29-31); a
\* settled promise stays as it is.
Emit ==
    /\ hpc = "waiting"
    /\ listeners
    /\ Len(events) < MaxEvents
    /\ \E e \in {"finish", "close", "error"} :
          /\ events' = Append(events, e)
          /\ hPromise' = IF hPromise # "pending" THEN hPromise
                         ELSE IF e = "error" THEN "rejected" ELSE "resolved"
    /\ UNCHANGED <<hpc, mod, invoked, resStatus, resBody, listeners, thrown>>
    /\ UNCHANGED <<serverVars, limiterVars>>

AdapterIdle ==
    /\ hpc = "idle"
    /\ mod = NoModule
    /\ invoked = "none"
    /\ resStatus = 0
    /\ resBody = NoBody
    /\ listeners = FALSE
    /\ events = <<>>
    /\ hPromise = "none"
    /\ thrown = "none"


(***************************************************************************)
(* The rate limiter (lines 98-114, mounted at line 128)                    *)
(*                                                                         *)
(* express-rate-limit counts a request when it arrives, refuses it when    *)
(* the identity's count then exceeds max, and, with skipSuccessfulRequests,*)
(* takes a request out of the count again when its response finishes with *)
(* a status below 400.  A request for which skip(req) holds is passed on   *)
(* untouched.  The model is one window, started with no request in flight. *)
(***************************************************************************)
\* line 100
max == 200

\* line 108
skipSuccessfulRequests == TRUE

\* How skipSuccessfulRequests tells a successful response: its status.
RequestWasSuccessful(status) == status < 400

\* A plausible slip: successful responses stay counted.
Uncount_Never(status) == FALSE

\* Whether a finished response is taken out of the count (line 108).
Uncount(status) == skipSuccessfulRequests /\ RequestWasSuccessful(status)

HealthPath == "/api/health"

\* lines 110-113
skip(path) == path = HealthPath

\* lines 101-104
message ==
    [error |-> "Too many requests, please try again later.", retryAfter |-> 60]

\* line 100: the request is refused when its identity's count exceeds max.
LimitExceeded(totalHits) == totalHits > max

\* The identities (client addresses), paths and response statuses of the model.
Identities == {"a", "b"}
Paths == {HealthPath, "/api/products"}
Statuses == {200, 304, 500}

\* requests of one identity in flight at once
MaxOpen == 1

\* how far identity "b" is followed: its count and its requests let pass
OtherBudget == 2

\* Identity "a" is followed past the ceiling, identity "b" up to OtherBudget:
\* the count up to which an identity sends requests, and the number of
\* successful requests up to which okSeen keeps counting.
HitsCap(i) == IF i = "a" THEN max + 2 ELSE OtherBudget
OkCap(i) == IF i = "a" THEN max ELSE OtherBudget

\* okSeen of an identity whose requests so far are no longer only successful
\* ones, or more than OkCap of them
Untracked == 0 - 1

\* A decision of the limiter: the request (identity, path, the status its
\* handler answers with), the verdict and the body sent with a rejection,
\* and what held just before the request: afterMaxOk, exactly max requests
\* of the identity, all successful; full, max or more requests of the
\* identity not ended in a status below 400.
NoDecision ==
    [id |-> "", path |-> "", status |-> 0, verdict |-> "none", body |-> NoBody,
     afterMaxOk |-> FALSE, full |-> FALSE]

InFlight(i) == open[i][200] + open[i][304] + open[i][500]

\* A request arrives at the limiter (line 128): identity i, path p, and the
\* status s its handler would answer with.
LimiterRequest ==
    \E i \in Identities, p \in Paths, s \in Statuses :
        /\ hits[i] < HitsCap(i)
        /\ InFlight(i) < MaxOpen
        /\ IF skip(p)
           THEN /\ UNCHANGED <<hits, open, okSeen, unsucc, healthTouched>>
                /\ last' = [id |-> i, path |-> p, status |-> s, verdict |-> "skipped",
                            body |-> NoBody, afterMaxOk |-> FALSE, full |-> FALSE]
           ELSE /\ hits' = [hits EXCEPT ![i] = @ + 1]
                /\ unsucc' = [unsucc EXCEPT ![i] = @ + 1]
                /\ healthTouched' = (healthTouched \/ p = HealthPath)
                /\ IF LimitExceeded(hits[i] + 1)
                   THEN /\ last' = [id |-> i, path |-> p, status |-> s,
                                    verdict |-> "rejected", body |-> message,
                                    afterMaxOk |-> (okSeen[i] = max),
                                    full |-> (unsucc[i] >= max)]
                        /\ okSeen' = [okSeen EXCEPT ![i] = Untracked]
                        /\ open' = open
                   ELSE /\ last' = [id |-> i, path |-> p, status |-> s,
                                    verdict |-> "passed", body |-> NoBody,
                                    afterMaxOk |-> (okSeen[i] = max),
                                    full |-> (unsucc[i] >= max)]
                        /\ okSeen' = [okSeen EXCEPT ![i] =
                                         IF @ = Untracked \/ @ >= OkCap(i) \/ s >= 400
                                         THEN Untracked ELSE @ + 1]
                        /\ open' = [open EXCEPT ![i][s] = @ + 1]
    /\ UNCHANGED <<serverVars, adapterVars>>

\* The response of a request the limiter let pass finishes.
LimiterFinish ==
    \E i \in Identities, s \in Statuses :
        /\ open[i][s] > 0
        /\ open' = [open EXCEPT ![i][s] = @ - 1]
        /\ hits' = [hits EXCEPT ![i] = IF Uncount(s) /\ @ > 0 THEN @ - 1 ELSE @]
        /\ unsucc' = [unsucc EXCEPT ![i] = IF s < 400 THEN @ - 1 ELSE @]
        /\ UNCHANGED <<okSeen, last, healthTouched>>
    /\ UNCHANGED <<serverVars, adapterVars>>

LimiterIdle ==
    /\ hits = [i \in Identities |-> 0]
    /\ open = [i \in Identities |-> [s \in Statuses |-> 0]]
    /\ okSeen = [i \in Identities |-> 0]
    /\ unsucc = [i \in Identities |-> 0]
    /\ last = NoDecision
    /\ healthTouched = FALSE

(***************************************************************************)
(* The backend process                                                     *)
(***************************************************************************)
ServerInit ==
    /\ env \in [NODE_ENV : NodeEnvValues, VERCEL : VercelValues,
                DATABASE_URL : DatabaseUrlValues]
    /\ proc = "init"
    /\ exitCode = "none"
    /\ prisma = Null
    /\ dbConnected = FALSE
    /\ ipc = "notCalled"
    /\ conn = "none"
    /\ ilog = {}
    /\ server = "none"
    /\ bindHost = "none"
    /\ sigHandler = FALSE
    /\ sigReceived = FALSE
    /\ spc = "none"
    /\ openConns = 0
    /\ reqCtx = {}

Init == ServerInit /\ AdapterIdle /\ LimiterIdle

Next ==
    \/ LoadModule
    \/ ConnectResolve
    \/ ConnectReject
    \/ CountResolve
    \/ CountReject
    \/ InitDisconnectResolve
    \/ InitDisconnectReject
    \/ ListenerRequest
    \/ ExportRequest
    \/ ConnectionEnd
    \/ Sigterm
    \/ CloseCallback
    \/ ShutdownDisconnectResolve
    \/ ShutdownDisconnectReject
    \/ UnhandledRejectionExit

Spec == Init /\ [][Next]_vars

\* One invocation of the adapter, in a process that has loaded nothing yet.
InitAdapter == ServerInit /\ AdapterIdle /\ LimiterIdle

NextAdapter ==
    \/ HandlerStart
    \/ TransportClose
    \/ ImportReject
    \/ ImportResolve
    \/ Emit

SpecAdapter == InitAdapter /\ [][NextAdapter]_vars

\* The limiter of a process started as a local server.
InitLimiter ==
    /\ ServerInit
    /\ env = [NODE_ENV |-> "development", VERCEL |-> Absent, DATABASE_URL |-> Absent]
    /\ AdapterIdle
    /\ LimiterIdle

NextLimiter ==
    \/ LimiterRequest
    \/ LimiterFinish

SpecLimiter == InitLimiter /\ [][NextLimiter]_vars


(***************************************************************************)
(* Claims about the adapter                                                *)
(***************************************************************************)
\* C1: with a valid application invoked (and not throwing), the promise
\* handler returned is unsettled until the response has emitted finish,
\* close or error; it is resolved once the first such event is finish or
\* close and rejected once it is error, wherever the event falls relative to
\* the registration of the listeners.
C1_SettlesOnFirstEvent ==
    (invoked # "none" /\ thrown # "app") =>
        /\ events = <<>> => hPromise = "pending"
        /\ (events # <<>> /\ events[1] \in {"finish", "close"}) => hPromise = "resolved"
        /\ (events # <<>> /\ events[1] = "error") => hPromise = "rejected"

\* The adapter answered 500 with the configuration-error body and invoked nothing.
ShapeRefused ==
    /\ resStatus = 500
    /\ resBody = ConfigurationError
    /\ invoked = "none"
    /\ hPromise = "resolved"

\* C2 as stated: a default export that is null, a string, or an object
\* lacking an invocable member is answered with 500 and the
\* configuration-error body, and nothing is invoked.
C2_RefusedByDefaultExport ==
    (/\ mod # NoModule
     /\ \/ mod.default.kind \in {"null", "string"}
        \/ (mod.default.kind = "object" /\ mod.default.handle # "function"))
    => ShapeRefused

\* C2 as amended: the same, except that for a falsy default export (null or
\* the empty string) line 11 takes the module namespace as the application:
\* it is refused when the module exports no function named handle, and
\* otherwise that export is invoked.
C2_RefusedByResolvedValue ==
    /\ (/\ mod # NoModule
        /\ \/ (mod.default.kind = "string" /\ mod.default.str # "")
           \/ (mod.default.kind = "object" /\ mod.default.handle # "function")
           \/ (/\ \/ mod.default.kind = "null"
                  \/ (mod.default.kind = "string" /\ mod.default.str = "")
               /\ mod.handle # "function"))
       => ShapeRefused
    /\ (/\ mod # NoModule
        /\ \/ mod.default.kind = "null"
           \/ (mod.default.kind = "string" /\ mod.default.str = "")
        /\ mod.handle = "function")
       => (invoked = "handle" /\ resBody # ConfigurationError)

C2_Witness ==
    /\ mod # NoModule
    /\ mod.default.kind = "object"
    /\ mod.default.handle = "object"
    /\ ShapeRefused

\* C3: whatever is thrown in steps 2-4 ends as the 500 response of the catch
\* block, and the promise handler returned is never rejected.
C3_NothingEscapes ==
    /\ hPromise # "rejected"
    /\ thrown # "none" => (resStatus = 500 /\ resBody = InternalServerError)

(***************************************************************************)
(* Claims about the backend process                                        *)
(***************************************************************************)
\* C4: in every reachable state the handle (prisma) is non-null only if
\* dbConnected is true, and so is every pair the context injection attaches.
C4_HandleOnlyIfConnected ==
    /\ prisma # Null => dbConnected
    /\ \A c \in reqCtx : c[2] # Null => c[1]

\* C5: with the hosted indicator set when the module loads,
\* initializeDatabase is never invoked and every request carries
\* dbConnected = false and prisma = null, whatever DATABASE_URL is.
C5_HostedNeverInitializes ==
    Truthy(env.VERCEL) =>
        /\ ipc = "notCalled"
        /\ conn = "none"
        /\ \A c \in reqCtx : c = <<FALSE, Null>>

C5_Witness ==
    /\ Truthy(env.VERCEL)
    /\ Truthy(env.DATABASE_URL)
    /\ proc = "running"
    /\ reqCtx # {}

\* C6: initializeDatabase never throws; without DATABASE_URL it attempts no
\* connection; and a run without DATABASE_URL, or whose connect or
\* validation query failed, ends with dbConnected = false and prisma = null,
\* also when the disconnect of the catch block fails.
C6_FallbackTuple ==
    /\ ipc # "threw"
    /\ ~Truthy(env.DATABASE_URL) => (conn = "none" /\ ipc \in {"notCalled", "done"})
    /\ (ipc = "done" /\ (~Truthy(env.DATABASE_URL) \/ "failed" \in ilog)) =>
           (dbConnected = FALSE /\ prisma = Null)

C6_Witness ==
    /\ ipc = "done"
    /\ "disconnectError" \in ilog
    /\ conn = "connected"
    /\ dbConnected = FALSE
    /\ prisma = Null

\* C7 as stated: the hosted indicator alone decides the branch; set, the
\* state is (false, null) and no listener is ever bound; not set, the
\* connector is invoked and a loopback listener is bound.
C7_IndicatorDecidesBoth ==
    proc # "init" =>
        /\ Truthy(env.VERCEL) =>
               (dbConnected = FALSE /\ prisma = Null /\ server = "none")
        /\ ~Truthy(env.VERCEL) =>
               (ipc # "notCalled" /\ server # "none" /\ bindHost = Loopback)

\* C7 as amended: the hosted indicator decides only whether the connector is
\* invoked (set: never, and the state stays (false, null); not set: invoked);
\* the loopback listener is bound exactly when NODE_ENV is not "production",
\* whatever the indicator is.
C7_IndicatorAndModeDecide ==
    proc # "init" =>
        /\ Truthy(env.VERCEL) =>
               (ipc = "notCalled" /\ dbConnected = FALSE /\ prisma = Null)
        /\ ~Truthy(env.VERCEL) => ipc # "notCalled"
        /\ env.NODE_ENV # "production" => (server # "none" /\ bindHost = Loopback)
        /\ env.NODE_ENV = "production" => (server = "none" /\ bindHost = "none")

C7_Witness ==
    /\ proc = "running"
    /\ Truthy(env.VERCEL)
    /\ server = "listening"
    /\ bindHost = Loopback
    /\ ipc = "notCalled"

\* C8: any two requests handled by the same process observe the same
\* (req.dbConnected, req.prisma) pair.
C8_SamePairForAllRequests ==
    \A c, d \in reqCtx : c = d

\* C9: in standalone mode a process that has ended after SIGTERM had closed
\* its listener first and does not leave a present handle connected.
C9_GracefulShutdown ==
    (~Truthy(env.VERCEL) /\ sigHandler /\ sigReceived /\ proc = "exited") =>
        /\ server = "closed"
        /\ ~(prisma # Null /\ conn = "connected")

(***************************************************************************)
(* Claims about the rate limiter                                           *)
(***************************************************************************)
\* C10 as stated: after 200 successful requests of one identity in the
\* window, its next non-exempt request that does not end in a successful
\* response is rejected with the documented body; requests to /api/health
\* never change a count.
C10_RejectedAfterMaxSuccessful ==
    /\ (/\ last.verdict # "none"
        /\ last.path # HealthPath
        /\ last.status >= 400
        /\ last.afterMaxOk)
       => (last.verdict = "rejected" /\ last.body = message)
    /\ ~healthTouched

\* C10 as amended: a non-exempt request is rejected, with the documented
\* body, exactly when 200 or more earlier non-exempt requests of its
\* identity in the window have not (yet) ended in a response with a status
\* below 400, which is what the limiter's count of the identity holds;
\* requests to /api/health are passed on and never change a count.
C10_RejectedAfterMaxUnsuccessful ==
    /\ \A i \in Identities : hits[i] = unsucc[i]
    /\ (last.verdict # "none" /\ last.path # HealthPath) =>
           /\ last.verdict = "rejected" <=> last.full
           /\ last.verdict = "rejected" => last.body = message
           /\ last.verdict # "rejected" => last.verdict = "passed"
    /\ (last.verdict # "none" /\ last.path = HealthPath) => last.verdict = "skipped"
    /\ ~healthTouched
    /\ message.retryAfter = 60

C10_Witness ==
    /\ last.verdict = "rejected"
    /\ last.id = "a"
    /\ last.path = "/api/products"
    /\ last.full
    /\ last.body = message
    /\ hits["a"] = max + 1

====
